---- MODULE Spec2Model ----
(***************************************************************************)
(* The /ingest service of src/ingest.py: an upload is copied into a        *)
(* temporary file, gunzipped when it carries the gzip magic number,        *)
(* handed to the document loader, token-counted, split when it is longer   *)
(* than chunk_size, and returned as a Document.                            *)
(*                                                                         *)
(* The handler is a coroutine: it can be interleaved with other requests   *)
(* only at `await file.read(...)`.  So a request is modelled by Receive,   *)
(* one ReadChunk per awaited read, and one action for everything that      *)
(* follows the read that hits end of file, one action per exit path.       *)
(*                                                                         *)
(* Bytes and characters are integers (the byte value, the code point).     *)
(* The collaborators that live in libraries (gzip, libmagic, the           *)
(* unstructured loader, the GPT-2 tokenizer, MD5) are deterministic        *)
(* functions of their input and are modelled by small deterministic        *)
(* functions of the same shape.  The text splitter is a deterministic      *)
(* library function too, but the handler relies on nothing about its       *)
(* result: split_text is chosen, once per text, among all the ways of      *)
(* cutting the text into contiguous pieces.                                *)
(***************************************************************************)
EXTENDS Integers, Sequences, FiniteSets, TLC

\* ------------------------------------------------------------------ bounds
\* the requests served
NumReq == 2
\* the longest run of 'a' in an upload
MaxLen == 2
\* CHUNK_SIZE is between 1 and MaxChunkSize
MaxChunkSize == 1
\* file_chunk_size is 1024 * 1024 in the source; scaled to the payloads here
file_chunk_size == 2

Req == 1..NumReq

Min(a, b) == IF a < b THEN a ELSE b

\* ------------------------------------------------------------------ gzip
\* b'\x1f\x8b'
GzipMagic == <<31, 139>>

\* f.read(n): at most n bytes from the start of the file
Read(data, n) == SubSeq(data, 1, Min(n, Len(data)))

is_gz_file(data) == Read(data, 2) = GzipMagic

\* The compressed stream after the magic number: (count, byte) runs.
\* A stream of odd length is truncated, a count of 0 is corrupt.
StreamOk(s) ==
    /\ Len(s) % 2 = 0
    /\ \A i \in 1..Len(s) : (i % 2 = 1) => s[i] \in 1..255

RECURSIVE Inflate_dropLast(_)
Inflate_dropLast(s) ==
    IF Len(s) <= 2 THEN <<>>
    ELSE [i \in 1..s[1] |-> s[2]] \o Inflate_dropLast(SubSeq(s, 3, Len(s)))

RECURSIVE Inflate(_)
Inflate(s) ==
    IF s = <<>> THEN <<>>
    ELSE [i \in 1..s[1] |-> s[2]] \o Inflate(SubSeq(s, 3, Len(s)))

\* gzip.open(...) read to the end: the decompressed bytes, or BadGzipFile/EOFError
GzipRead(data) ==
    LET s == SubSeq(data, 3, Len(data))
    IN  IF StreamOk(s) THEN [ok |-> TRUE, data |-> Inflate(s)]
        ELSE [ok |-> FALSE, data |-> <<>>]

\* What a client does to produce a gzip upload of payload p
RunLen(p) ==
    CHOOSE n \in 1..Len(p) :
        /\ \A i \in 1..n : p[i] = p[1]
        /\ n = Len(p) \/ p[n + 1] # p[1]

RECURSIVE Deflate(_)
Deflate(p) ==
    IF p = <<>> THEN <<>>
    ELSE <<RunLen(p), p[1]>> \o Deflate(SubSeq(p, RunLen(p) + 1, Len(p)))

Gzip(p) == GzipMagic \o Deflate(p)

\* ------------------------------------------------------------------ uploads
\* 97 'a', 32 ' ', 60 '<' (markup), 0 (a byte no loader can read as text)
TextBytes == {97, 32}

Repeat(b, k) == [i \in 1..k |-> b]

\* "", "a", "aa", ...; an HTML page; text with leading and repeated spaces;
\* a binary file
Payloads ==
    {Repeat(97, k) : k \in 0..MaxLen}
        \cup {<<60, 97>>, <<32, 97, 32, 32, 97>>, <<0>>}

\* the payloads that are also uploaded compressed
GzipPayloads == {Repeat(97, MaxLen), <<0>>}

\* a gzip stream cut short
Truncated(p) == SubSeq(Gzip(p), 1, Len(Gzip(p)) - 1)

Uploads ==
    Payloads \cup {Gzip(p) : p \in GzipPayloads} \cup {Truncated(<<97>>)}

\* ------------------------------------------------------------------ libmagic
get_mime_type(data) ==
    IF data = <<>> THEN "inode/x-empty"
    ELSE IF is_gz_file(data) THEN "application/gzip"
    ELSE IF data[1] = 60 THEN "text/html"
    ELSE IF \E i \in 1..Len(data) : data[i] \notin TextBytes THEN "application/octet-stream"
    ELSE "text/plain"

\* ------------------------------------------------------------------ loader
\* re.sub(r"([ ]{2,})", " ", text)
RECURSIVE CollapseSpaces(_)
CollapseSpaces(t) ==
    IF Len(t) < 2 THEN t
    ELSE IF t[1] = 32 /\ t[2] = 32 THEN CollapseSpaces(Tail(t))
    ELSE <<t[1]>> \o CollapseSpaces(Tail(t))

\* str.strip()
RECURSIVE Strip(_)
Strip(t) ==
    IF t = <<>> THEN t
    ELSE IF t[1] = 32 THEN Strip(Tail(t))
    ELSE IF t[Len(t)] = 32 THEN Strip(SubSeq(t, 1, Len(t) - 1))
    ELSE t

clean_extra_whitespace(t) == Strip(CollapseSpaces(t))

\* The text of a file: markup bytes carry none
FileText(data) == SelectSeq(data, LAMBDA b : b # 60)

\* UnstructuredFileLoader(file_path, post_processors).load(): raises on bytes
\* it cannot read as text, otherwise the list of extracted segments, each with
\* metadata['source'] = file_path.  A file without text yields no segment.
LoaderLoad(data, path) ==
    IF \E i \in 1..Len(data) : data[i] \notin (TextBytes \cup {60})
    THEN [ok |-> FALSE, docs |-> <<>>]
    ELSE LET t == clean_extra_whitespace(FileText(data))
         IN  [ok |-> TRUE,
              docs |-> IF t = <<>> THEN <<>>
                       ELSE <<[page_content |-> t, source |-> path]>>]

\* ------------------------------------------------------------------ tokenizer
\* len(tokenizer.encode(text)): every 'a' is a token and a space is merged
\* into the 'a' that follows it, as GPT-2 merges a leading space into a word
count_tokens(text) ==
    Cardinality({i \in 1..Len(text) :
        \/ text[i] # 32
        \/ i = Len(text)
        \/ text[i + 1] = 32})

\* ------------------------------------------------------------------ splitter
\* Every list of contiguous non-empty pieces that make up the text
RECURSIVE Chunkings(_)
Chunkings(t) ==
    IF t = <<>> THEN {<<>>}
    ELSE UNION {{<<SubSeq(t, 1, k)>> \o rest :
                    rest \in Chunkings(SubSeq(t, k + 1, Len(t)))} :
                k \in 1..Len(t)}

\* ------------------------------------------------------------------ doc id
\* str.encode('utf-8') of one code point and of a string
Utf8Char(c) ==
    IF c < 128 THEN <<c>> ELSE <<192 + (c \div 64), 128 + (c % 64)>>

RECURSIVE Utf8(_)
Utf8(s) == IF s = <<>> THEN <<>> ELSE Utf8Char(s[1]) \o Utf8(Tail(s))

HexDigits ==
    <<"0", "1", "2", "3", "4", "5", "6", "7",
      "8", "9", "a", "b", "c", "d", "e", "f">>

\* The state behind hex digit i of the digest once the first n bytes are fed
RECURSIVE Mix(_, _, _)
Mix(data, n, i) ==
    IF n = 0 THEN 7 * i + 3
    ELSE (Mix(data, n - 1, i) * 31 + data[n] + i) % 65536

\* md5.hexdigest() of an md5 object that was fed `data`
hexdigest(data) ==
    [i \in 1..32 |-> HexDigits[((Mix(data, Len(data), i) \div 16) % 16) + 1]]

\* tempfile names: "tmp" and the number of the file
TempName(k) == <<116, 109, 112, 48 + k>>

\* str(i) of the f-string
RECURSIVE Decimal(_)
Decimal(i) ==
    IF i < 10 THEN <<HexDigits[i + 1]>>
    ELSE Decimal(i \div 10) \o <<HexDigits[(i % 10) + 1]>>

\* f'{id}-{i}'
ChunkId(id, i) == id \o <<"-">> \o Decimal(i)

\* enumerate(texts)
enumerate_from1(texts) == [i \in 1..Len(texts) |-> <<i, texts[i]>>]

enumerate(texts) == [i \in 1..Len(texts) |-> <<i - 1, texts[i]>>]

\* ------------------------------------------------------------------ state
VARIABLES
    chunk_size,         \* int(os.getenv("CHUNK_SIZE"))
    delete_temp_file,   \* bool(os.getenv("DELETE_TEMP_FILE", ""))
    md5,                \* the bytes fed so far to the module-level md5 object
    fs,                 \* the temporary files, by number
    split_text,         \* the splitter's result for each text it has split
    req                 \* the requests

vars == <<chunk_size, delete_temp_file, md5, fs, split_text, req>>

NoDocument ==
    [content |-> <<>>, tokens_count |-> 0, mime_type |-> "", items |-> <<>>]

IdleRequest ==
    [pc |-> "idle", upload |-> <<>>, pos |-> 0, temp |-> 0, decompressed |-> 0,
     loaded_path |-> 0, loaded |-> FALSE, segments |-> 0, page |-> <<>>,
     split_called |-> FALSE, texts |-> <<>>, source |-> <<>>, uid |-> <<>>,
     outcome |-> "none", document |-> NoDocument]

TempFiles == 1..(2 * NumReq)

\* a name no file has yet
NoFile == [data |-> <<>>, open |-> FALSE, exists |-> FALSE]

Init ==
    /\ chunk_size \in 1..MaxChunkSize
    /\ delete_temp_file \in BOOLEAN
    /\ md5 = <<>>
    /\ fs = [k \in TempFiles |-> NoFile]
    /\ split_text = [t \in {} |-> <<>>]
    /\ req = [r \in Req |-> IdleRequest]

\* ------------------------------------------------------------------ temp files
\* tempfile.NamedTemporaryFile(mode='wb', delete=delete_temp_file)
\* names a new file as no other file is named: request r gets file 2r - 1
\* for the upload and file 2r for the decompressed bytes
UploadFile(r) == 2 * r - 1

DecompressedFile(temp) == temp + 1

NamedTemporaryFile == [data |-> <<>>, open |-> TRUE, exists |-> TRUE]

\* file.close(): the file is unlinked when it was created with delete=True
Close(f) ==
    [f EXCEPT !.open = FALSE,
              !.exists = ~delete_temp_file,
              !.data = IF delete_temp_file THEN <<>> ELSE @]

\* leaving the `with` block, normally or with exception exc
TempFileExit_leakOnError(f, exc) == IF exc = "none" THEN Close(f) ELSE f

TempFileExit(f, exc) == Close(f)

\* ------------------------------------------------------------------ load(file)
load(temp) ==
    LET data == fs[temp].data
    IN  IF is_gz_file(data)
        THEN LET z == GzipRead(data)
                 second == DecompressedFile(temp)
                 ld == LoaderLoad(z.data, TempName(second))
             IN  [gz |-> TRUE, written |-> z.data, path |-> second,
                  exc |-> IF ~z.ok THEN "BadGzipFile"
                          ELSE IF ~ld.ok THEN "ExtractionError" ELSE "none",
                  docs |-> IF z.ok THEN ld.docs ELSE <<>>,
                  mime_type |-> get_mime_type(z.data)]
        ELSE LET ld == LoaderLoad(data, TempName(temp))
             IN  [gz |-> FALSE, written |-> <<>>, path |-> temp,
                  exc |-> IF ~ld.ok THEN "ExtractionError" ELSE "none",
                  docs |-> ld.docs,
                  mime_type |-> get_mime_type(data)]

\* The files once the request has left both `with` blocks: the decompressed
\* file is left when load returns or raises (L.exc), the upload file when the
\* handler returns or raises (exc)
FilesAfter(temp, L, exc) ==
    LET created == IF L.gz
                   THEN [fs EXCEPT ![L.path] = TempFileExit(
                            [NamedTemporaryFile EXCEPT !.data = L.written], L.exc)]
                   ELSE fs
    IN  [created EXCEPT ![temp] = TempFileExit(@, exc)]

\* ------------------------------------------------------------------ chunker
\* if (doc_tokens_count > chunk_size)
NeedsSplit_ge(doc_tokens_count) == doc_tokens_count >= chunk_size

NeedsSplit(doc_tokens_count) == doc_tokens_count > chunk_size

\* content=doc.page_content if mime_type != "text/plain" else None
Content_swapped(page_content, mime_type) ==
    IF mime_type = "text/plain" THEN <<page_content>> ELSE <<>>

Content(page_content, mime_type) ==
    IF mime_type # "text/plain" THEN <<page_content>> ELSE <<>>

\* split(doc): text_splitter.split_text(doc.page_content)
SplitResults(t) ==
    IF t \in DOMAIN split_text THEN {split_text[t]} ELSE Chunkings(t)

Remember(t, texts) ==
    [x \in DOMAIN split_text \cup {t} |-> IF x = t THEN texts ELSE split_text[x]]

\* the loop over enumerate(texts)
Items(id, texts) ==
    LET pairs == enumerate(texts)
    IN  [k \in 1..Len(texts) |->
            [content |-> pairs[k][2],
             tokens_count |-> count_tokens(pairs[k][2]),
             metadata |-> [id |-> ChunkId(id, pairs[k][1])]]]

\* ------------------------------------------------------------------ actions
\* POST /ingest arrives: the upload temp file is created.  Request r is the
\* r-th request to arrive.
Receive(r, u) ==
    /\ req[r].pc = "idle"
    /\ \A q \in Req : q < r => req[q].pc # "idle"
    /\ fs' = [fs EXCEPT ![UploadFile(r)] = NamedTemporaryFile]
    /\ req' = [req EXCEPT ![r] =
                [@ EXCEPT !.pc = "reading", !.upload = u, !.temp = UploadFile(r)]]
    /\ UNCHANGED <<chunk_size, delete_temp_file, md5, split_text>>

\* chunk = await file.read(file_chunk_size); temp.write(chunk)
ReadChunk(r) ==
    /\ req[r].pc = "reading"
    /\ req[r].pos < Len(req[r].upload)
    /\ LET chunk == SubSeq(req[r].upload, req[r].pos + 1,
                           Min(req[r].pos + file_chunk_size, Len(req[r].upload)))
       IN  /\ fs' = [fs EXCEPT ![req[r].temp].data = @ \o chunk]
           /\ req' = [req EXCEPT ![r].pos = @ + Len(chunk)]
    /\ UNCHANGED <<chunk_size, delete_temp_file, md5, split_text>>

\* the read that returns b'' : the loop breaks and the rest of the handler
\* runs without another await.  Each of the actions below is one way through
\* that rest; L is the value load(temp) returns or the exception it raises.
AtEof(r) == req[r].pc = "reading" /\ req[r].pos = Len(req[r].upload)

\* load(temp) raises: gzip cannot read the stream, or the loader cannot read the file
LoadRaises(r) ==
    /\ AtEof(r)
    /\ \E L \in {load(req[r].temp)} :
           /\ L.exc # "none"
           /\ fs' = FilesAfter(req[r].temp, L, L.exc)
           /\ req' = [req EXCEPT ![r] =
                [@ EXCEPT !.pc = "done", !.outcome = L.exc,
                          !.decompressed = IF L.gz THEN L.path ELSE 0]]
    /\ UNCHANGED <<chunk_size, delete_temp_file, md5, split_text>>

\* docs is empty: doc = docs[0] raises IndexError
NoSegments(r) ==
    /\ AtEof(r)
    /\ \E L \in {load(req[r].temp)} :
           /\ L.exc = "none"
           /\ L.docs = <<>>
           /\ fs' = FilesAfter(req[r].temp, L, "IndexError")
           /\ req' = [req EXCEPT ![r] =
                [@ EXCEPT !.pc = "done", !.outcome = "IndexError",
                          !.loaded = TRUE, !.loaded_path = L.path,
                          !.decompressed = IF L.gz THEN L.path ELSE 0]]
    /\ UNCHANGED <<chunk_size, delete_temp_file, md5, split_text>>

\* doc_tokens_count <= chunk_size: the Document without items
ReturnUnsplit(r) ==
    /\ AtEof(r)
    /\ \E L \in {load(req[r].temp)} :
           /\ L.exc = "none"
           /\ L.docs # <<>>
           /\ LET doc == L.docs[1]
                  doc_tokens_count == count_tokens(doc.page_content)
              IN  /\ ~NeedsSplit(doc_tokens_count)
                  /\ fs' = FilesAfter(req[r].temp, L, "none")
                  /\ req' = [req EXCEPT ![r] =
                        [@ EXCEPT !.pc = "done", !.outcome = "document",
                                  !.loaded = TRUE, !.loaded_path = L.path,
                                  !.decompressed = IF L.gz THEN L.path ELSE 0,
                                  !.segments = Len(L.docs),
                                  !.page = <<doc.page_content>>,
                                  !.document =
                                      [content |-> Content(doc.page_content, L.mime_type),
                                       tokens_count |-> doc_tokens_count,
                                       mime_type |-> L.mime_type,
                                       items |-> <<>>]]]
    /\ UNCHANGED <<chunk_size, delete_temp_file, md5, split_text>>

\* doc_tokens_count > chunk_size and the splitter returns fewer than two
\* chunks: print(texts[1]) raises IndexError
SplitThenIndexError(r) ==
    /\ AtEof(r)
    /\ \E L \in {load(req[r].temp)} :
           /\ L.exc = "none"
           /\ L.docs # <<>>
           /\ LET doc == L.docs[1]
                  doc_tokens_count == count_tokens(doc.page_content)
              IN  /\ NeedsSplit(doc_tokens_count)
                  /\ \E texts \in SplitResults(doc.page_content) :
                        /\ Len(texts) < 2
                        /\ split_text' = Remember(doc.page_content, texts)
                        /\ fs' = FilesAfter(req[r].temp, L, "IndexError")
                        /\ req' = [req EXCEPT ![r] =
                              [@ EXCEPT !.pc = "done", !.outcome = "IndexError",
                                        !.loaded = TRUE, !.loaded_path = L.path,
                                        !.decompressed = IF L.gz THEN L.path ELSE 0,
                                        !.segments = Len(L.docs),
                                        !.page = <<doc.page_content>>,
                                        !.split_called = TRUE,
                                        !.texts = texts]]
    /\ UNCHANGED <<chunk_size, delete_temp_file, md5>>

\* doc_tokens_count > chunk_size and the splitter returns two chunks or more:
\* get_doc_id, one item per chunk, the Document
ReturnSplit(r) ==
    /\ AtEof(r)
    /\ \E L \in {load(req[r].temp)} :
           /\ L.exc = "none"
           /\ L.docs # <<>>
           /\ LET doc == L.docs[1]
                  doc_tokens_count == count_tokens(doc.page_content)
              IN  /\ NeedsSplit(doc_tokens_count)
                  /\ \E texts \in SplitResults(doc.page_content) :
                        /\ Len(texts) >= 2
                        /\ split_text' = Remember(doc.page_content, texts)
                        /\ md5' = md5 \o Utf8(doc.source)
                        /\ fs' = FilesAfter(req[r].temp, L, "none")
                        /\ \E id \in {SubSeq(hexdigest(md5'), 1, 12)} :
                               req' = [req EXCEPT ![r] =
                                 [@ EXCEPT !.pc = "done", !.outcome = "document",
                                           !.loaded = TRUE, !.loaded_path = L.path,
                                           !.decompressed = IF L.gz THEN L.path ELSE 0,
                                           !.segments = Len(L.docs),
                                           !.page = <<doc.page_content>>,
                                           !.split_called = TRUE,
                                           !.texts = texts,
                                           !.source = doc.source,
                                           !.uid = id,
                                           !.document =
                                               [content |-> Content(doc.page_content, L.mime_type),
                                                tokens_count |-> doc_tokens_count,
                                                mime_type |-> L.mime_type,
                                                items |-> Items(id, texts)]]]
    /\ UNCHANGED <<chunk_size, delete_temp_file>>

Next ==
    \E r \in Req :
        \/ \E u \in Uploads : Receive(r, u)
        \/ ReadChunk(r)
        \/ LoadRaises(r)
        \/ NoSegments(r)
        \/ ReturnUnsplit(r)
        \/ SplitThenIndexError(r)
        \/ ReturnSplit(r)

Spec == Init /\ [][Next]_vars

\* ------------------------------------------------------------------ claims
Done(r) == req[r].pc = "done"

Returned(r) == Done(r) /\ req[r].outcome = "document"

\* the load returned and its first segment was read
HasText(r) == Done(r) /\ req[r].page # <<>>

Tokens(r) == count_tokens(req[r].page[1])

\* C1: get_doc_id on source s returns the first 12 hex characters of the MD5
\* digest of the UTF-8 encoding of s alone, whatever calls came before.
C1_DocIdFunctionOfSource ==
    \A r \in Req :
        req[r].uid # <<>> =>
            req[r].uid = SubSeq(hexdigest(Utf8(req[r].source)), 1, 12)

\* C2: when count_tokens of the extracted text is at most chunk_size, the
\* splitter is not invoked and the handler returns a Document with no items
\* whose tokens_count is count_tokens of the text.
C2_UnsplitWithinChunkSize ==
    \A r \in Req :
        (HasText(r) /\ Tokens(r) <= chunk_size) =>
            /\ ~req[r].split_called
            /\ req[r].outcome = "document"
            /\ req[r].document.items = <<>>
            /\ req[r].document.tokens_count = Tokens(r)

C2_Witness ==
    \E r \in Req :
        /\ HasText(r)
        /\ Tokens(r) = chunk_size
        /\ Returned(r)
        /\ req[r].document.tokens_count = chunk_size

\* C4: in a returned Document the item at position i (from 0, in splitter
\* order) has the id '{document_id}-{i}' with one 12-hex-character
\* document_id for all items, so the ids are pairwise distinct.
HexChars == {HexDigits[i] : i \in 1..16}

DecimalChars == {HexDigits[i] : i \in 1..10}

DigitValue(c) == CHOOSE d \in 0..9 : HexDigits[d + 1] = c

RECURSIVE ParseDecimal(_)
ParseDecimal(s) ==
    IF Len(s) = 1 THEN DigitValue(s[1])
    ELSE 10 * ParseDecimal(SubSeq(s, 1, Len(s) - 1)) + DigitValue(s[Len(s)])

C4_ChunkIdsContiguous ==
    \A r \in Req :
        Returned(r) =>
            LET items == req[r].document.items
                IdOf(k) == items[k].metadata.id
            IN  /\ \A k \in 1..Len(items) :
                    /\ Len(IdOf(k)) >= 14
                    /\ \A j \in 1..12 : IdOf(k)[j] \in HexChars
                    /\ SubSeq(IdOf(k), 1, 12) = SubSeq(IdOf(1), 1, 12)
                    /\ IdOf(k)[13] = "-"
                    /\ \A j \in 14..Len(IdOf(k)) : IdOf(k)[j] \in DecimalChars
                    /\ ParseDecimal(SubSeq(IdOf(k), 14, Len(IdOf(k)))) = k - 1
                    /\ items[k].content = req[r].texts[k]
                /\ \A j, k \in 1..Len(items) : j # k => IdOf(j) # IdOf(k)

C4_Witness ==
    \E r \in Req : Returned(r) /\ Len(req[r].document.items) >= 2

\* C5: the content of a returned Document is null when the sniffed MIME type
\* is text/plain, split or not, and is the extracted text otherwise.
C5_ContentNullForPlainText ==
    \A r \in Req :
        Returned(r) =>
            /\ req[r].document.mime_type = "text/plain"
                    => req[r].document.content = <<>>
            /\ req[r].document.mime_type # "text/plain"
                    => req[r].document.content = req[r].page

C5_Witness ==
    \E r1, r2 \in Req :
        /\ Returned(r1)
        /\ req[r1].document.mime_type = "text/plain"
        /\ req[r1].document.items # <<>>
        /\ Returned(r2)
        /\ req[r2].document.mime_type = "text/html"
        /\ req[r2].document.content = req[r2].page

\* C6: when extraction yields zero segments the handler ends in a distinct
\* extraction-failure error, not in an IndexError, and returns no Document.
C6_ZeroSegmentsIsExtractionFailure ==
    \A r \in Req :
        (Done(r) /\ req[r].loaded /\ req[r].segments = 0) =>
            /\ req[r].outcome = "ExtractionEmpty"
            /\ req[r].document = NoDocument

\* C7: every temporary file of a request is released when the request ends,
\* on every exit path: it is closed, and it is deleted when delete_temp_file
\* is set and kept when it is not.
Released(k) == ~fs[k].open /\ (fs[k].exists <=> ~delete_temp_file)

C7_TempFilesReleased ==
    /\ \A r \in Req :
        Done(r) =>
            /\ Released(req[r].temp)
            /\ is_gz_file(req[r].upload) =>
                    /\ req[r].decompressed \notin {0, req[r].temp}
                    /\ Released(req[r].decompressed)
    /\ \A k \in TempFiles :
        fs[k].open => \E r \in Req : req[r].pc = "reading" /\ req[r].temp = k

C7_Witness ==
    \E r1, r2 \in Req :
        /\ Done(r1)
        /\ req[r1].outcome \in {"BadGzipFile", "ExtractionError"}
        /\ req[r1].decompressed # 0
        /\ Done(r2)
        /\ req[r2].outcome = "IndexError"
        /\ req[r2].split_called

\* C8: handling requests writes no process-wide state: the module-level
\* hashing object keeps the value it had after startup.
C8_ProcessWideStateUnchanged == md5 = <<>>

\* C9: a gzip upload is decompressed to a second temp file and extracted from
\* it, and ends as the upload of the decompressed bytes does, with the same
\* content, tokens_count, mime_type and item contents and token counts; an
\* upload without the magic number is extracted from the upload temp file.
SameItem(a, b) == a.content = b.content /\ a.tokens_count = b.tokens_count

SameDocument(a, b) ==
    /\ a.content = b.content
    /\ a.tokens_count = b.tokens_count
    /\ a.mime_type = b.mime_type
    /\ Len(a.items) = Len(b.items)
    /\ \A k \in 1..Len(a.items) : SameItem(a.items[k], b.items[k])

C10_SplitReturnsDocument ==
    \A r \in Req :
        (HasText(r) /\ Tokens(r) > chunk_size /\ req[r].texts # <<>>) =>
            /\ req[r].outcome = "document"
            /\ Len(req[r].document.items) = Len(req[r].texts)
            /\ \A k \in 1..Len(req[r].texts) :
                    req[r].document.items[k].content = req[r].texts[k]

====
